---- MODULE Spec2Model ----
(***************************************************************************)
(* Cartoon Magic: the Index page (selection, adjustment, submission), the  *)
(* ImageEditor adjustment stage, the ImageUploader capture source and the  *)
(* cartoonify-image endpoint, as one state machine.                        *)
(*                                                                         *)
(* The browser runs every handler to completion on one event loop, so a    *)
(* handler, the re-render it causes and the effects of that render are one *)
(* action.  What is asynchronous in the source (image decoding, toBlob,    *)
(* FileReader, getUserMedia, the endpoint call) is a pending item that a   *)
(* later action completes, in any order.                                   *)
(***************************************************************************)
EXTENDS Integers, Sequences, FiniteSets, TLC

\* ------------------------------------------------------------------ bounds
MaxFiles == 2          \* File objects the user supplies in one run
MaxSubmits == 2        \* clicks on the Cartoonify button in one run
MaxPending == 1        \* toBlob encodes that may be pending at once
MaxStreams == 2        \* media streams the device hands out in one run
MaxCaptures == 2       \* photos captured or being captured at once
MaxClock == 2          \* milliseconds Date.now() advances in one run

VARIABLES
    \* Index (src/unnamed/part_002:13-17)
    selectedFile, adjustedFile, cartoonImage, isProcessing, selectedStyle,
    \* handleCartoonify: position of the running handler, the "cartoonify"
    \* toast, FileReaders and endpoint calls in flight
    pc, toast, reads, invokes, responses, nextReq, unhandledRejection,
    \* ImageEditor (src/src/components/ImageEditor.tsx:19-25)
    adjustments, originalImage, canvas, pendingLoads, pendingBlobs,
    \* ImageUploader (src/src/components/ImageUploader.tsx:218-229)
    preview, previewReads, nextFile,
    isWebcamActive, streamRef, liveStreams, videoSrc,
    facingMode, quality, storage,
    capturedImages, selectedImageId, pendingCaptures,
    nextStream, pendingGUM, restartTimers, camToast, now,
    \* deployment, and whether the page is still mounted
    apiKeyConfigured, mediaSupported, mounted,
    \* the endpoint's last exchange with a caller other than the page
    served

idxVars == <<selectedFile, adjustedFile, cartoonImage, isProcessing, selectedStyle>>
subVars == <<pc, toast, reads, invokes, responses, nextReq, unhandledRejection>>
edVars == <<adjustments, originalImage, canvas, pendingLoads, pendingBlobs>>
dropVars == <<preview, previewReads, nextFile>>
streamVars == <<isWebcamActive, streamRef, liveStreams, videoSrc>>
prefVars == <<facingMode, quality, storage>>
galleryVars == <<capturedImages, selectedImageId, pendingCaptures>>
camVars == <<streamVars, prefVars, galleryVars,
             nextStream, pendingGUM, restartTimers, camToast, now>>
envVars == <<apiKeyConfigured, mediaSupported, mounted, served>>
vars == <<idxVars, subVars, edVars, dropVars, camVars, envVars>>

\* ------------------------------------------------------------------ values
Null == [kind |-> "null"]

\* The n-th File object handed to the page.
File(n) == [kind |-> "file", src |-> n]

\* new File([blob], imageFile.name, {type: 'image/png'}): the PNG encoding
\* of the canvas as it was when toBlob was called.
RenderedFile(b) == [kind |-> "render", src |-> b.src, adj |-> b.adj, name |-> b.name]

\* FileReader.readAsDataURL: the payload with its MIME type in front.
DataURL(f) == [kind |-> "dataurl", mime |-> IF f.kind = "render" THEN "image/png" ELSE "image/*", of |-> f]

CartoonStyle == <<"vibrant", "anime", "comic", "watercolor", "sketch", "pixar",
                  "retro", "noir", "popart", "oil", "fantasy", "minimalist">>

\* The values of the buttons of StyleSelector (StyleSelector.tsx:24-85).
styles == <<"vibrant", "anime", "comic", "watercolor", "sketch", "pixar",
            "retro", "noir", "popart", "oil", "fantasy", "minimalist">>

\* The styles the user picks in the runs explored: the initial one and another.
StylesTried == {CartoonStyle[1], CartoonStyle[2]}

\* The slider positions tried, of 0..200: the default and a darker one.
Levels == {100, 50}

\* The ends of the sliders' range and the default.
ExtremeLevels == {0, 100, 200}

DefaultAdjustments == [brightness |-> 100, contrast |-> 100, saturation |-> 100]

hasAdjustments ==
    \/ adjustments.brightness # 100
    \/ adjustments.contrast # 100
    \/ adjustments.saturation # 100

ToastNone == [kind |-> "none", msg |-> ""]

\* ---------------------------------------------------------------- endpoint
\* A stylePrompts table that lacks the last style of the client.
stylePrompts_WithoutMinimalist ==
    [vibrant |->
        "Transform this image into a vibrant cartoon style. Apply bold outlines, saturated colors, simplified shapes, and a playful artistic interpretation. Make it look like a hand-drawn animation or comic book illustration with enhanced colors and clear, defined edges.",
     anime |->
        "Transform this image into a beautiful anime/manga style. Use large expressive eyes, clean linework, soft shading, vibrant hair colors, and the characteristic Japanese animation aesthetic. Add cel-shaded lighting and smooth gradients typical of anime art.",
     comic |->
        "Transform this image into a dynamic comic book style. Use bold black outlines, Ben-Day dots, halftone patterns, dramatic lighting with high contrast, and vibrant primary colors. Make it look like it's from a vintage superhero comic with action-packed energy.",
     watercolor |->
        "Transform this image into a soft watercolor painting style. Use gentle brushstrokes, pastel colors that blend smoothly, transparent washes, organic edges, and the fluid, dreamy quality of watercolor art. Create a delicate, artistic interpretation.",
     sketch |->
        "Transform this image into a hand-drawn pencil sketch style. Use cross-hatching, varied line weights, shading with graphite-like strokes, and the organic, imperfect quality of pencil artwork. Make it look like a detailed artist's sketch with visible drawing marks.",
     pixar |->
        "Transform this image into a Pixar-style 3D animated movie look. Use soft rounded shapes, glossy surfaces, cinematic lighting with rim lights, warm color palettes, expressive character features, and the polished CGI quality of modern animated films like Toy Story or Finding Nemo.",
     retro |->
        "Transform this image into a retro 1950s cartoon style. Use limited color palettes, simple bold shapes, vintage comic aesthetics, grainy texture, flat colors with minimal shading, and the nostalgic look of classic Hanna-Barbera or early Disney cartoons.",
     noir |->
        "Transform this image into a dramatic film noir style. Use high contrast black and white, deep shadows, dramatic lighting, sharp angles, moody atmosphere, and the classic detective movie aesthetic. Create strong chiaroscuro effects with bold darks and highlights.",
     popart |->
        "Transform this image into Andy Warhol-style pop art. Use bright neon colors, high contrast, repeated patterns, Ben-Day dots, bold flat colors, screen-print effects, and the iconic 1960s pop art aesthetic. Make it bold, graphic, and eye-catching.",
     oil |->
        "Transform this image into a classical oil painting style. Use rich textures, visible brushstrokes, deep colors with subtle color mixing, impasto techniques, Renaissance or Impressionist aesthetics, and the timeless quality of traditional fine art oil paintings.",
     fantasy |->
        "Transform this image into an epic fantasy art style. Use magical lighting effects, mystical color palettes with purples and blues, ethereal glows, dramatic atmosphere, otherworldly beauty, and the enchanting quality of fantasy book covers or concept art."]

\* The stylePrompts table of the endpoint (part_002:760-773).
stylePrompts ==
    [vibrant |->
        "Transform this image into a vibrant cartoon style. Apply bold outlines, saturated colors, simplified shapes, and a playful artistic interpretation. Make it look like a hand-drawn animation or comic book illustration with enhanced colors and clear, defined edges.",
     anime |->
        "Transform this image into a beautiful anime/manga style. Use large expressive eyes, clean linework, soft shading, vibrant hair colors, and the characteristic Japanese animation aesthetic. Add cel-shaded lighting and smooth gradients typical of anime art.",
     comic |->
        "Transform this image into a dynamic comic book style. Use bold black outlines, Ben-Day dots, halftone patterns, dramatic lighting with high contrast, and vibrant primary colors. Make it look like it's from a vintage superhero comic with action-packed energy.",
     watercolor |->
        "Transform this image into a soft watercolor painting style. Use gentle brushstrokes, pastel colors that blend smoothly, transparent washes, organic edges, and the fluid, dreamy quality of watercolor art. Create a delicate, artistic interpretation.",
     sketch |->
        "Transform this image into a hand-drawn pencil sketch style. Use cross-hatching, varied line weights, shading with graphite-like strokes, and the organic, imperfect quality of pencil artwork. Make it look like a detailed artist's sketch with visible drawing marks.",
     pixar |->
        "Transform this image into a Pixar-style 3D animated movie look. Use soft rounded shapes, glossy surfaces, cinematic lighting with rim lights, warm color palettes, expressive character features, and the polished CGI quality of modern animated films like Toy Story or Finding Nemo.",
     retro |->
        "Transform this image into a retro 1950s cartoon style. Use limited color palettes, simple bold shapes, vintage comic aesthetics, grainy texture, flat colors with minimal shading, and the nostalgic look of classic Hanna-Barbera or early Disney cartoons.",
     noir |->
        "Transform this image into a dramatic film noir style. Use high contrast black and white, deep shadows, dramatic lighting, sharp angles, moody atmosphere, and the classic detective movie aesthetic. Create strong chiaroscuro effects with bold darks and highlights.",
     popart |->
        "Transform this image into Andy Warhol-style pop art. Use bright neon colors, high contrast, repeated patterns, Ben-Day dots, bold flat colors, screen-print effects, and the iconic 1960s pop art aesthetic. Make it bold, graphic, and eye-catching.",
     oil |->
        "Transform this image into a classical oil painting style. Use rich textures, visible brushstrokes, deep colors with subtle color mixing, impasto techniques, Renaissance or Impressionist aesthetics, and the timeless quality of traditional fine art oil paintings.",
     fantasy |->
        "Transform this image into an epic fantasy art style. Use magical lighting effects, mystical color palettes with purples and blues, ethereal glows, dramatic atmosphere, otherworldly beauty, and the enchanting quality of fantasy book covers or concept art.",
     minimalist |->
        "Transform this image into a minimalist art style. Use simple clean lines, limited color palette (2-4 colors max), geometric shapes, negative space, flat design, modern aesthetic, and the elegant simplicity of Scandinavian or Japanese minimalism."]

\* Keys of the stylePrompts table of the endpoint.
StylePromptKeys == DOMAIN stylePrompts

\* const {image, style = "vibrant"} = await req.json(): the default applies
\* where the body has no style.
StyleOf(req) == IF "style" \in DOMAIN req THEN req.style ELSE "vibrant"

\* What every object literal inherits from Object.prototype: its methods,
\* and the accessor __proto__.
ObjectPrototypeMethods ==
    {"constructor", "toString", "toLocaleString", "valueOf", "hasOwnProperty",
     "isPrototypeOf", "propertyIsEnumerable"}

\* stylePrompts[style]: the own property, else the inherited one, else
\* undefined.
GetProperty(style) ==
    IF style \in DOMAIN stylePrompts
    THEN [kind |-> "string", value |-> stylePrompts[style]]
    ELSE IF style \in ObjectPrototypeMethods
    THEN [kind |-> "function", value |-> style]
    ELSE IF style = "__proto__"
    THEN [kind |-> "object", value |-> "Object.prototype"]
    ELSE [kind |-> "undefined", value |-> ""]

\* The left operand of || is taken when it is truthy.
Truthy(v) == v.kind \in {"function", "object"} \/ (v.kind = "string" /\ v.value # "")

\* const promptText = stylePrompts[style] || stylePrompts.vibrant
promptText(style) ==
    IF Truthy(GetProperty(style)) THEN GetProperty(style) ELSE GetProperty("vibrant")

\* JSON.stringify of the part {type: "text", text: promptText}: a string is
\* kept, a function-valued property is left out, Object.prototype becomes {}.
TextPart(pt) ==
    IF pt.kind = "string" THEN [kind |-> "string", value |-> pt.value]
    ELSE IF pt.kind = "function" THEN [kind |-> "absent", value |-> ""]
    ELSE [kind |-> "object", value |-> "{}"]

NoCall == [kind |-> "none"]

\* The body of the call to the hosted model for the request req, if the
\* handler gets as far as the fetch.
UpstreamRequest(req, key) ==
    IF req.image = Null \/ ~key
    THEN NoCall
    ELSE [kind |-> "call", text |-> TextPart(promptText(StyleOf(req))), image_url |-> req.image]

\* What the hosted model may answer to the single call: a success with or
\* without a generated image, a non-success status, or no answer at all.
\* images are the urls at choices[0].message.images[i].image_url.url.
UpstreamOutcomes ==
    {[kind |-> "http", status |-> 200, images |-> <<"g1">>],
     [kind |-> "http", status |-> 200, images |-> <<>>],
     [kind |-> "http", status |-> 429, images |-> <<>>],
     [kind |-> "http", status |-> 402, images |-> <<>>],
     [kind |-> "http", status |-> 500, images |-> <<>>],
     [kind |-> "throw", status |-> 0, images |-> <<>>]}

\* The answers tried on the endpoint alone: those above, more than one
\* generated image, another success status and other failure statuses.
EndpointAnswers ==
    UpstreamOutcomes \cup
    {[kind |-> "http", status |-> 200, images |-> <<"g1", "g2">>],
     [kind |-> "http", status |-> 200, images |-> <<"g2", "g1">>],
     [kind |-> "http", status |-> 201, images |-> <<"g1">>],
     [kind |-> "http", status |-> 400, images |-> <<>>],
     [kind |-> "http", status |-> 404, images |-> <<>>],
     [kind |-> "http", status |-> 503, images |-> <<>>]}

Response(status, error, image, calls) ==
    [status |-> status, error |-> error, cartoon_image |-> image, upstreamCalls |-> calls]

\* response.ok
ResponseOk(status) == status \in 200..299

\* An extraction that takes the last generated image.
ExtractImage_Last(up) == IF Len(up.images) > 0 THEN up.images[Len(up.images)] ELSE ""

\* data.choices?.[0]?.message?.images?.[0]?.image_url?.url, "" standing
\* for undefined.
ExtractImage(up) == IF Len(up.images) > 0 THEN up.images[1] ELSE ""

\* A relay that reports every upstream failure as the generic one.
RelayFailure_AllGeneric(status) ==
    Response(500, "Gemini AI error: " \o ToString(status), Null, 1)

\* The !response.ok branch (part_002:818-837); the throw is caught at 854
\* and answered with status 500 and the message.
RelayFailure(status) ==
    IF status = 429
    THEN Response(429, "Rate limit exceeded. Please try again later.", Null, 1)
    ELSE IF status = 402
    THEN Response(402, "Payment required. Please add credits to your workspace.", Null, 1)
    ELSE Response(500, "Gemini AI error: " \o ToString(status), Null, 1)

\* A handler that reads the credential only after the fetch.
Serve_ChecksCredentialLate(req, key, up) ==
    IF req.image = Null
    THEN Response(400, "No image provided", Null, 0)
    ELSE IF ~key
    THEN Response(500, "AI service not configured", Null, 1)
    ELSE IF up.kind = "throw"
    THEN Response(500, "error sending request", Null, 1)
    ELSE IF ~ResponseOk(up.status)
    THEN RelayFailure(up.status)
    ELSE IF ExtractImage(up) = ""
    THEN Response(500, "No cartoon image returned from AI", Null, 1)
    ELSE Response(200, "", [kind |-> "cartoon", url |-> ExtractImage(up), of |-> req.image,
                            prompt |-> TextPart(promptText(StyleOf(req)))], 1)

\* The POST branch of the Deno.serve handler for a parsed body: the response
\* to the request req = {image, style} when the credential is configured or
\* not (key) and the hosted model answers up.  The generated image is what
\* the model made of req.image under the instruction sent.
Serve(req, key, up) ==
    IF req.image = Null
    THEN Response(400, "No image provided", Null, 0)
    ELSE IF ~key
    THEN Response(500, "AI service not configured", Null, 0)
    ELSE IF up.kind = "throw"
    THEN Response(500, "error sending request", Null, 1)
    ELSE IF ~ResponseOk(up.status)
    THEN RelayFailure(up.status)
    ELSE IF ExtractImage(up) = ""
    THEN Response(500, "No cartoon image returned from AI", Null, 1)
    ELSE Response(200, "", [kind |-> "cartoon", url |-> ExtractImage(up), of |-> req.image,
                            prompt |-> TextPart(promptText(StyleOf(req)))], 1)

\* A body req.json() cannot parse or destructure: not JSON, or null.
Unparsable == [kind |-> "unparsable"]

\* The Deno.serve handler: the preflight answer, the catch around
\* req.json(), and the POST branch.
Handle(request, key, up) ==
    IF request.method = "OPTIONS"
    THEN Response(200, "", Null, 0)
    ELSE IF request.body = Unparsable
    THEN Response(500, "Unexpected end of JSON input", Null, 0)
    ELSE Serve(request.body, key, up)

NoExchange == [kind |-> "none"]

\* Style strings a caller may send besides those of the client: none of the
\* table, among them names every JavaScript object inherits.
ForeignStyles == {"", "cyberpunk", "Vibrant", "toString", "constructor", "__proto__"}

\* The request bodies tried: with and without an image, with a style of the
\* client, a foreign one, or none.
RequestBodies ==
    LET images == {Null, DataURL(File(1))}
        names == {styles[i] : i \in 1..Len(styles)} \cup ForeignStyles IN
    {[image |-> image, style |-> style] : image \in images, style \in names}
       \cup {[image |-> image] : image \in images}

\* The requests tried: a POST with each of the bodies, a POST with a body
\* that does not parse, and a preflight.
Requests ==
    {[method |-> "POST", body |-> body] : body \in RequestBodies \cup {Unparsable}}
       \cup {[method |-> "OPTIONS", body |-> Unparsable]}

\* A caller other than the page sends request to the endpoint, which answers
\* it while the hosted model answers up.
ApiRequest(request, up) ==
    /\ served' = [kind |-> "exchange", method |-> request.method, req |-> request.body,
                  up |-> up,
                  sent |-> IF request.method = "OPTIONS" \/ request.body = Unparsable
                           THEN NoCall
                           ELSE UpstreamRequest(request.body, apiKeyConfigured),
                  resp |-> Handle(request, apiKeyConfigured, up)]
    /\ UNCHANGED <<apiKeyConfigured, mediaSupported, mounted>>
    /\ UNCHANGED <<idxVars, subVars, edVars, dropVars, camVars>>

\* ------------------------------------------------------------------- Index
\* The button offered whenever a file is selected, a result shown or not.
TriggerOffered_IgnoresResult == selectedFile # Null

\* The Cartoonify button is rendered (part_002:148).
TriggerOffered == selectedFile # Null /\ cartoonImage = Null

\* handleImageSelect(file)
handleImageSelect(file) ==
    /\ selectedFile' = file
    /\ adjustedFile' = file
    /\ cartoonImage' = Null
    /\ UNCHANGED <<isProcessing, selectedStyle>>

\* handleImageAdjusted(file)
handleImageAdjusted(file) ==
    /\ adjustedFile' = file
    /\ UNCHANGED <<selectedFile, cartoonImage, isProcessing, selectedStyle>>

\* handleStyleChange(style), from a StyleSelector button
handleStyleChange(style) ==
    /\ mounted
    /\ pc = "idle"
    /\ selectedFile # Null
    /\ ~isProcessing
    /\ selectedStyle' = style
    /\ cartoonImage' = Null
    /\ UNCHANGED <<selectedFile, adjustedFile, isProcessing>>
    /\ UNCHANGED <<subVars, edVars, dropVars, camVars, envVars>>

\* handleCartoonify up to the try block: the guard, the flag, the loading toast.
handleCartoonify ==
    /\ mounted
    /\ pc = "idle"
    /\ TriggerOffered
    /\ ~isProcessing
    /\ nextReq < MaxSubmits
    /\ IF adjustedFile = Null
       THEN UNCHANGED <<isProcessing, toast, pc>>
       ELSE /\ isProcessing' = TRUE
            /\ toast' = [kind |-> "loading", msg |-> "Cartoonifying your image..."]
            /\ pc' = "try"
    /\ UNCHANGED <<selectedFile, adjustedFile, cartoonImage, selectedStyle>>
    /\ UNCHANGED <<reads, invokes, responses, nextReq, unhandledRejection>>
    /\ UNCHANGED <<edVars, dropVars, camVars, envVars>>

\* A handler that returns without clearing the flag.
CartoonifyFinally_KeepsFlag ==
    /\ UNCHANGED isProcessing
    /\ pc' = "idle"

\* The finally block of handleCartoonify.
CartoonifyFinally ==
    /\ isProcessing' = FALSE
    /\ pc' = "idle"

\* The try block of handleCartoonify, then catch and finally.  The try block
\* only creates the reader and starts the read; the catch runs if that raises.
CartoonifyBody ==
    /\ pc = "try"
    /\ \/ /\ reads' = reads \cup {[id |-> nextReq + 1, file |-> adjustedFile, style |-> selectedStyle]}
          /\ nextReq' = nextReq + 1
          /\ UNCHANGED toast
       \/ /\ \E message \in {"", "InvalidStateError"} :
                toast' = [kind |-> "error",
                          msg |-> IF message = "" THEN "Failed to cartoonify image" ELSE message]
          /\ UNCHANGED <<reads, nextReq>>
    /\ CartoonifyFinally
    /\ UNCHANGED <<selectedFile, adjustedFile, cartoonImage, selectedStyle>>
    /\ UNCHANGED <<invokes, responses, unhandledRejection>>
    /\ UNCHANGED <<edVars, dropVars, camVars, envVars>>

\* reader.onloadend up to the await: reader.result is the data URL, or null
\* when the read failed; the endpoint is invoked with it and the style the
\* handler closed over.
ReaderLoadEnd(r) ==
    /\ pc = "idle"
    /\ r \in reads
    /\ \E ok \in BOOLEAN :
          invokes' = invokes \cup {[id |-> r.id,
                                    image |-> IF ok THEN DataURL(r.file) ELSE Null,
                                    style |-> r.style]}
    /\ reads' = reads \ {r}
    /\ UNCHANGED <<pc, toast, responses, nextReq, unhandledRejection>>
    /\ UNCHANGED <<idxVars, edVars, dropVars, camVars, envVars>>

\* The endpoint handles call q and its response travels back to the page.
EndpointResponds(q) ==
    /\ q \in invokes
    /\ invokes' = invokes \ {q}
    /\ \E up \in UpstreamOutcomes :
          LET resp == Serve(q, apiKeyConfigured, up) IN
          responses' = responses \cup {[id |-> q.id, status |-> resp.status,
                                        error |-> resp.error,
                                        cartoon_image |-> resp.cartoon_image]}
    /\ UNCHANGED <<pc, toast, reads, nextReq, unhandledRejection>>
    /\ UNCHANGED <<idxVars, edVars, dropVars, camVars, envVars>>

\* supabase.functions.invoke resolves to {data, error}: error is set when the
\* endpoint answered with a non-2xx status.
InvokeError(resp) == resp.status < 200 \/ resp.status > 299

\* A callback that drops the selection when the stylization failed.
InvokeSettled_ClearsOnFailure(resp) ==
    /\ pc = "idle"
    /\ resp \in responses
    /\ responses' = responses \ {resp}
    /\ IF InvokeError(resp) \/ resp.cartoon_image = Null
       THEN /\ unhandledRejection' = TRUE
            /\ selectedFile' = Null
            /\ adjustedFile' = Null
            /\ UNCHANGED <<cartoonImage, toast>>
       ELSE /\ cartoonImage' = resp.cartoon_image
            /\ toast' = [kind |-> "success", msg |-> "Image cartoonified successfully!"]
            /\ UNCHANGED <<unhandledRejection, selectedFile, adjustedFile>>
    /\ UNCHANGED <<isProcessing, selectedStyle>>
    /\ UNCHANGED <<pc, reads, invokes, nextReq>>
    /\ UNCHANGED <<edVars, dropVars, camVars, envVars>>

\* reader.onloadend after the await, with the response resp.  A throw in this
\* async callback rejects the promise the callback returns, which nobody
\* awaits; the try/catch of handleCartoonify has long been left.
InvokeSettled(resp) ==
    /\ pc = "idle"
    /\ resp \in responses
    /\ responses' = responses \ {resp}
    /\ IF InvokeError(resp)
       THEN /\ unhandledRejection' = TRUE
            /\ UNCHANGED <<cartoonImage, toast>>
       ELSE IF resp.cartoon_image # Null
       THEN /\ cartoonImage' = resp.cartoon_image
            /\ toast' = [kind |-> "success", msg |-> "Image cartoonified successfully!"]
            /\ UNCHANGED unhandledRejection
       ELSE /\ unhandledRejection' = TRUE
            /\ UNCHANGED <<cartoonImage, toast>>
    /\ UNCHANGED <<selectedFile, adjustedFile, isProcessing, selectedStyle>>
    /\ UNCHANGED <<pc, reads, invokes, nextReq>>
    /\ UNCHANGED <<edVars, dropVars, camVars, envVars>>

\* ------------------------------------------------------------- ImageEditor
\* A drawing that filters what the canvas already shows instead of the
\* decoded image.
applyFilters_OverCanvas(img, adj) ==
    [src |-> img,
     adj |-> IF canvas.src = img
             THEN [brightness |-> (canvas.adj.brightness * adj.brightness) \div 100,
                   contrast |-> (canvas.adj.contrast * adj.contrast) \div 100,
                   saturation |-> (canvas.adj.saturation * adj.saturation) \div 100]
             ELSE adj]

\* applyFilters(img, adj): the canvas holds img drawn under the filter adj.
applyFilters(img, adj) == [src |-> img, adj |-> adj]

\* exportAdjustedImage: toBlob copies the canvas now and encodes it later; the
\* callback names the file after the imageFile of the render it was made in.
exportAdjustedImage(cv) == [src |-> cv.src, adj |-> cv.adj, name |-> selectedFile'.src]

\* The render effect (ImageEditor.tsx:40-45) for the new adjustments adj and
\* the new original image img.
RenderEffect(img, adj) ==
    IF img # 0
    THEN /\ canvas' = applyFilters(img, adj)
         /\ pendingBlobs' = pendingBlobs \cup {exportAdjustedImage(applyFilters(img, adj))}
    ELSE UNCHANGED <<canvas, pendingBlobs>>

\* The load effect (ImageEditor.tsx:27-38) in the render that follows
\* handleImageSelect(file): a new imageFile starts a decode.  The editor stays
\* mounted, so adjustments and originalImage are kept.
LoadEffect(file) ==
    /\ pendingLoads' = IF file # selectedFile THEN pendingLoads \cup {file.src} ELSE pendingLoads
    /\ UNCHANGED <<adjustments, originalImage, canvas, pendingBlobs>>

\* img.onload of the Image created for file n (ImageEditor.tsx:29-32), and
\* the render effect that setOriginalImage triggers.
ImgOnload(n) ==
    /\ pc = "idle"
    /\ n \in pendingLoads
    /\ Cardinality(pendingBlobs) < MaxPending
    /\ pendingLoads' = pendingLoads \ {n}
    /\ originalImage' = n
    /\ UNCHANGED <<adjustments, idxVars>>
    /\ RenderEffect(n, adjustments)
    /\ UNCHANGED <<subVars, dropVars, camVars, envVars>>

\* The image could not be decoded: no handler is installed for that.
ImgError(n) ==
    /\ pc = "idle"
    /\ n \in pendingLoads
    /\ pendingLoads' = pendingLoads \ {n}
    /\ UNCHANGED <<adjustments, originalImage, canvas, pendingBlobs>>
    /\ UNCHANGED <<idxVars, subVars, dropVars, camVars, envVars>>

\* A slider's onValueChange: setAdjustments(prev => ({...prev, [field]: value})).
SetAdjustment(field, value) ==
    /\ mounted
    /\ pc = "idle"
    /\ selectedFile # Null
    /\ adjustments[field] # value
    /\ Cardinality(pendingBlobs) < MaxPending
    /\ adjustments' = [adjustments EXCEPT ![field] = value]
    /\ UNCHANGED <<originalImage, pendingLoads, idxVars>>
    /\ RenderEffect(originalImage, adjustments')
    /\ UNCHANGED <<subVars, dropVars, camVars, envVars>>

\* resetAdjustments, from the Reset button shown while hasAdjustments.
resetAdjustments ==
    /\ mounted
    /\ pc = "idle"
    /\ selectedFile # Null
    /\ hasAdjustments
    /\ Cardinality(pendingBlobs) < MaxPending
    /\ adjustments' = DefaultAdjustments
    /\ UNCHANGED <<originalImage, pendingLoads, idxVars>>
    /\ RenderEffect(originalImage, adjustments')
    /\ UNCHANGED <<subVars, dropVars, camVars, envVars>>

\* The toBlob callback of encode b (ImageEditor.tsx:66-71); blob is null when
\* the canvas could not be encoded.
ToBlobDone(b) ==
    /\ pc = "idle"
    /\ b \in pendingBlobs
    /\ pendingBlobs' = pendingBlobs \ {b}
    /\ \E ok \in BOOLEAN :
          IF ok THEN handleImageAdjusted(RenderedFile(b)) ELSE UNCHANGED idxVars
    /\ UNCHANGED <<adjustments, originalImage, canvas, pendingLoads>>
    /\ UNCHANGED <<subVars, dropVars, camVars, envVars>>

\* ----------------------------------------------------------- ImageUploader
NoStream == [id |-> 0, facingMode |-> "none", quality |-> "none"]

NoImageId == "null"

QUALITY_PRESETS ==
    [low |-> [width |-> 640, height |-> 480],
     medium |-> [width |-> 1280, height |-> 720],
     high |-> [width |-> 1920, height |-> 1080]]

\* localStorage without the two camera entries.
NothingStored == [facing |-> "none", quality |-> "none"]

\* localStorage.getItem('camera-facing') || 'user'
InitialFacingMode(st) == IF st.facing = "none" THEN "user" ELSE st.facing

\* localStorage.getItem('camera-quality') || 'medium'
InitialQuality(st) == IF st.quality = "none" THEN "medium" ELSE st.quality

\* Which of the three branches of the render is shown (ImageUploader.tsx:396,
\* 490, 552).
StreamingView == isWebcamActive

GalleryView == ~isWebcamActive /\ Len(capturedImages) > 0 /\ preview = Null

IdleView == ~StreamingView /\ ~GalleryView

\* videoRef.current is the <video> element, which only the streaming branch
\* of the render contains.
VideoMounted == isWebcamActive

\* The disabled prop Index passes (part_002:125).
disabled == isProcessing

RemoveAt(seq, i) == SubSeq(seq, 1, i - 1) \o SubSeq(seq, i + 1, Len(seq))

\* onDrop: the dropzone is in the idle branch and is disabled while
\* disabled || isWebcamActive; the accepted file goes to Index and a
\* FileReader is started for the preview.
onDrop ==
    /\ mounted
    /\ pc = "idle"
    /\ IdleView
    /\ ~(disabled \/ isWebcamActive)
    /\ nextFile < MaxFiles
    /\ nextFile' = nextFile + 1
    /\ handleImageSelect(File(nextFile + 1))
    /\ LoadEffect(File(nextFile + 1))
    /\ previewReads' = previewReads \cup {nextFile + 1}
    /\ UNCHANGED preview
    /\ UNCHANGED <<subVars, camVars, envVars>>

\* reader.onloadend of the preview read of file n: setPreview(reader.result).
PreviewLoadEnd(n) ==
    /\ pc = "idle"
    /\ n \in previewReads
    /\ previewReads' = previewReads \ {n}
    /\ \E ok \in BOOLEAN :
          preview' = IF ~mounted THEN preview ELSE IF ok THEN DataURL(File(n)) ELSE Null
    /\ UNCHANGED nextFile
    /\ UNCHANGED <<idxVars, subVars, edVars, camVars, envVars>>

\* What stopWebcam reads and writes: the two refs' targets, the streams with
\* live tracks and the flag.
StreamState ==
    [streamRef |-> streamRef, liveStreams |-> liveStreams,
     videoSrc |-> videoSrc, isWebcamActive |-> isWebcamActive]

\* A stopWebcam that drops the reference without stopping the tracks.
stopWebcamOn_KeepsTracks(s) ==
    [streamRef |-> NoStream,
     liveStreams |-> s.liveStreams,
     videoSrc |-> IF s.isWebcamActive THEN NoStream ELSE s.videoSrc,
     isWebcamActive |-> FALSE]

\* stopWebcam run in the state s: the tracks of the stream in streamRef are
\* stopped and the ref emptied; the video element, where there is one, is
\* paused and detached from its stream; the flag is cleared.  No statement
\* of it can raise (v.pause() is wrapped in try/catch).
stopWebcamOn(s) ==
    [streamRef |-> NoStream,
     liveStreams |-> IF s.streamRef # NoStream THEN s.liveStreams \ {s.streamRef} ELSE s.liveStreams,
     videoSrc |-> IF s.isWebcamActive THEN NoStream ELSE s.videoSrc,
     isWebcamActive |-> FALSE]

\* The streams that still have live tracks after stopWebcam.
StoppedStreams == stopWebcamOn(StreamState).liveStreams

stopWebcam ==
    /\ liveStreams' = StoppedStreams
    /\ streamRef' = stopWebcamOn(StreamState).streamRef
    /\ videoSrc' = stopWebcamOn(StreamState).videoSrc
    /\ isWebcamActive' = stopWebcamOn(StreamState).isWebcamActive

\* toast.error of startWebcam where the browser has no getUserMedia.
UnsupportedMessage == "Camera not supported in this browser."

\* What a render's startWebcam closes over.
Closure == [facingMode |-> facingMode, quality |-> quality, isWebcamActive |-> isWebcamActive]

\* startWebcam up to the await, as the closure c of some render: the refs are
\* read as they are now, the state as it was in that render.
StartWebcamBody(c) ==
    IF ~mediaSupported
    THEN /\ camToast' = UnsupportedMessage
         /\ UNCHANGED <<streamVars, pendingGUM>>
    ELSE /\ IF c.isWebcamActive THEN stopWebcam ELSE UNCHANGED streamVars
         /\ pendingGUM' = Append(pendingGUM,
                                 [facingMode |-> c.facingMode, quality |-> c.quality,
                                  width |-> QUALITY_PRESETS[c.quality].width,
                                  height |-> QUALITY_PRESETS[c.quality].height])
         /\ UNCHANGED camToast

\* startWebcam from the "Use Webcam" button of the idle branch (shown while
\* !preview) or "Capture More Photos" of the gallery.
startWebcam ==
    /\ mounted
    /\ pc = "idle"
    /\ \/ IdleView /\ preview = Null /\ ~disabled
       \/ GalleryView
    /\ Len(pendingGUM) + nextStream < MaxStreams
    /\ StartWebcamBody(Closure)
    /\ UNCHANGED <<prefVars, galleryVars, nextStream, restartTimers, now>>
    /\ UNCHANGED <<idxVars, subVars, edVars, dropVars, envVars>>

\* setTimeout(() => startWebcam(), 100) of toggleCamera / changeQuality fires:
\* the startWebcam of the render in which the timer was set.
RestartTimerFired(i) ==
    /\ pc = "idle"
    /\ i \in 1..Len(restartTimers)
    /\ Len(pendingGUM) + nextStream < MaxStreams
    /\ restartTimers' = RemoveAt(restartTimers, i)
    /\ StartWebcamBody(restartTimers[i])
    /\ UNCHANGED <<prefVars, galleryVars, nextStream, now>>
    /\ UNCHANGED <<idxVars, subVars, edVars, dropVars, envVars>>

\* startWebcam after the await, getUserMedia resolved with a new stream: it is
\* stored in streamRef, and attached and announced only if the video element
\* exists.  v.play() may resolve or reject; both set the flag.
GetUserMediaResolved(i) ==
    /\ pc = "idle"
    /\ i \in 1..Len(pendingGUM)
    /\ pendingGUM' = RemoveAt(pendingGUM, i)
    /\ nextStream' = nextStream + 1
    /\ LET stream == [id |-> nextStream + 1,
                      facingMode |-> pendingGUM[i].facingMode,
                      quality |-> pendingGUM[i].quality] IN
       /\ liveStreams' = liveStreams \cup {stream}
       /\ streamRef' = stream
       /\ IF VideoMounted
          THEN /\ videoSrc' = stream
               /\ isWebcamActive' = TRUE
               /\ \E played \in BOOLEAN :
                     camToast' = IF played THEN camToast ELSE "Tap the video to start preview"
          ELSE UNCHANGED <<videoSrc, isWebcamActive, camToast>>
    /\ UNCHANGED <<prefVars, galleryVars, restartTimers, now>>
    /\ UNCHANGED <<idxVars, subVars, edVars, dropVars, envVars>>

CameraErrorMessage(name) ==
    IF name = "NotReadableError" THEN "Camera is in use by another app."
    ELSE IF name = "NotFoundError" THEN "No camera device found."
    ELSE IF name = "NotAllowedError" THEN "Camera permission denied. Please enable permissions."
    ELSE "Unable to access webcam."

\* startWebcam after the await, getUserMedia rejected: the catch block.
GetUserMediaRejected(i) ==
    /\ pc = "idle"
    /\ i \in 1..Len(pendingGUM)
    /\ pendingGUM' = RemoveAt(pendingGUM, i)
    /\ \E name \in {"NotAllowedError", "NotFoundError", "NotReadableError", "AbortError"} :
          camToast' = CameraErrorMessage(name)
    /\ UNCHANGED <<streamVars, prefVars, galleryVars, nextStream, restartTimers, now>>
    /\ UNCHANGED <<idxVars, subVars, edVars, dropVars, envVars>>

\* The Cancel / Done button of the streaming branch: stopWebcam.
StopClicked ==
    /\ mounted
    /\ pc = "idle"
    /\ StreamingView
    /\ stopWebcam
    /\ UNCHANGED <<prefVars, galleryVars, nextStream, pendingGUM, restartTimers, camToast, now>>
    /\ UNCHANGED <<idxVars, subVars, edVars, dropVars, envVars>>

\* if (isWebcamActive) { stopWebcam(); setTimeout(() => startWebcam(), 100) }
\* of toggleCamera and changeQuality: the timer holds this render's closure.
RestartIfActive ==
    IF isWebcamActive
    THEN /\ stopWebcam
         /\ restartTimers' = Append(restartTimers, Closure)
    ELSE UNCHANGED <<streamVars, restartTimers>>

\* toggleCamera, from the camera button of the streaming branch.
toggleCamera ==
    /\ mounted
    /\ pc = "idle"
    /\ StreamingView
    /\ LET newMode == IF facingMode = "user" THEN "environment" ELSE "user" IN
       /\ facingMode' = newMode
       /\ storage' = [storage EXCEPT !.facing = newMode]
    /\ RestartIfActive
    /\ UNCHANGED <<quality, galleryVars, nextStream, pendingGUM, camToast, now>>
    /\ UNCHANGED <<idxVars, subVars, edVars, dropVars, envVars>>

\* changeQuality(newQuality), from the select of the streaming branch.
changeQuality(newQuality) ==
    /\ mounted
    /\ pc = "idle"
    /\ StreamingView
    /\ newQuality # quality
    /\ quality' = newQuality
    /\ storage' = [storage EXCEPT !.quality = newQuality]
    /\ RestartIfActive
    /\ UNCHANGED <<facingMode, galleryVars, nextStream, pendingGUM, camToast, now>>
    /\ UNCHANGED <<idxVars, subVars, edVars, dropVars, envVars>>

\* capturePhoto, from the Capture button of the streaming branch: the frame
\* of the stream shown is drawn to a canvas and toBlob is started.
capturePhoto ==
    /\ mounted
    /\ pc = "idle"
    /\ StreamingView
    /\ Len(pendingCaptures) + Len(capturedImages) < MaxCaptures
    /\ IF VideoMounted
       THEN pendingCaptures' = Append(pendingCaptures,
                                      [stage |-> "blob", frame |-> videoSrc.id, file |-> Null, name |-> 0])
       ELSE UNCHANGED pendingCaptures
    /\ UNCHANGED <<capturedImages, selectedImageId>>
    /\ UNCHANGED <<streamVars, prefVars, nextStream, pendingGUM, restartTimers, camToast, now>>
    /\ UNCHANGED <<idxVars, subVars, edVars, dropVars, envVars>>

\* The toBlob callback of capture i: the file is named after Date.now() and a
\* FileReader is started; a null blob ends the capture.
CaptureBlobDone(i) ==
    /\ pc = "idle"
    /\ i \in 1..Len(pendingCaptures)
    /\ pendingCaptures[i].stage = "blob"
    /\ nextFile < MaxFiles
    /\ \E ok \in BOOLEAN :
          IF ok
          THEN /\ pendingCaptures' = [pendingCaptures EXCEPT ![i] =
                      [stage |-> "read", frame |-> @.frame, file |-> File(nextFile + 1), name |-> now]]
               /\ nextFile' = nextFile + 1
          ELSE /\ pendingCaptures' = RemoveAt(pendingCaptures, i)
               /\ UNCHANGED nextFile
    /\ UNCHANGED <<capturedImages, selectedImageId, preview, previewReads>>
    /\ UNCHANGED <<streamVars, prefVars, nextStream, pendingGUM, restartTimers, camToast, now>>
    /\ UNCHANGED <<idxVars, subVars, edVars, envVars>>

\* reader.onloadend of capture i: the entry gets the id Date.now().toString()
\* and is appended.
CaptureReadEnd(i) ==
    /\ pc = "idle"
    /\ i \in 1..Len(pendingCaptures)
    /\ pendingCaptures[i].stage = "read"
    /\ pendingCaptures' = RemoveAt(pendingCaptures, i)
    /\ \E ok \in BOOLEAN :
          capturedImages' = IF ~mounted THEN capturedImages ELSE Append(capturedImages,
              [file |-> pendingCaptures[i].file,
               name |-> pendingCaptures[i].name,
               preview |-> IF ok THEN DataURL(pendingCaptures[i].file) ELSE Null,
               id |-> ToString(now)])
    /\ camToast' = "Photo captured!"
    /\ UNCHANGED selectedImageId
    /\ UNCHANGED <<streamVars, prefVars, nextStream, pendingGUM, restartTimers, now>>
    /\ UNCHANGED <<idxVars, subVars, edVars, dropVars, envVars>>

\* Date.now() moves on.
Tick ==
    /\ now < MaxClock
    /\ now' = now + 1
    /\ UNCHANGED <<streamVars, prefVars, galleryVars, nextStream, pendingGUM, restartTimers, camToast>>
    /\ UNCHANGED <<idxVars, subVars, edVars, dropVars, envVars>>

\* The entries of images whose id is not id: prev.filter(img => img.id !== id).
WithoutId(images, id) == SelectSeq(images, LAMBDA img : img.id # id)

\* deleteImage(id), from the trash button of a thumbnail (both galleries).
deleteImage(id) ==
    /\ mounted
    /\ pc = "idle"
    /\ StreamingView \/ GalleryView
    /\ \E i \in 1..Len(capturedImages) : capturedImages[i].id = id
    /\ capturedImages' = WithoutId(capturedImages, id)
    /\ IF selectedImageId = id
       THEN selectedImageId' = NoImageId /\ preview' = Null
       ELSE UNCHANGED <<selectedImageId, preview>>
    /\ UNCHANGED <<pendingCaptures, previewReads, nextFile>>
    /\ UNCHANGED <<streamVars, prefVars, nextStream, pendingGUM, restartTimers, camToast, now>>
    /\ UNCHANGED <<idxVars, subVars, edVars, envVars>>

\* selectImage(image), from a click on thumbnail i (both galleries).
selectImage(i) ==
    /\ mounted
    /\ pc = "idle"
    /\ StreamingView \/ GalleryView
    /\ i \in 1..Len(capturedImages)
    /\ selectedImageId' = capturedImages[i].id
    /\ preview' = capturedImages[i].preview
    /\ handleImageSelect(capturedImages[i].file)
    /\ LoadEffect(capturedImages[i].file)
    /\ UNCHANGED <<capturedImages, pendingCaptures, previewReads, nextFile>>
    /\ UNCHANGED <<streamVars, prefVars, nextStream, pendingGUM, restartTimers, camToast, now>>
    /\ UNCHANGED <<subVars, envVars>>

\* closeGallery, from the Clear All button of the gallery branch.
closeGallery ==
    /\ mounted
    /\ pc = "idle"
    /\ GalleryView
    /\ capturedImages' = <<>>
    /\ selectedImageId' = NoImageId
    /\ preview' = Null
    /\ stopWebcam
    /\ UNCHANGED <<pendingCaptures, previewReads, nextFile>>
    /\ UNCHANGED <<prefVars, nextStream, pendingGUM, restartTimers, camToast, now>>
    /\ UNCHANGED <<idxVars, subVars, edVars, envVars>>

\* The page is torn down: the cleanup of the uploader's mount effect calls
\* stopWebcam (ImageUploader.tsx:329-333).  Nothing cancels what was started:
\* timers, reads and getUserMedia calls still complete afterwards.
Unmount ==
    /\ mounted
    /\ pc = "idle"
    /\ mounted' = FALSE
    /\ stopWebcam
    /\ UNCHANGED <<apiKeyConfigured, mediaSupported, served>>
    /\ UNCHANGED <<prefVars, galleryVars, nextStream, pendingGUM, restartTimers, camToast, now>>
    /\ UNCHANGED <<idxVars, subVars, edVars, dropVars>>

\* ------------------------------------------------------------ specification
Init ==
    /\ selectedFile = Null
    /\ adjustedFile = Null
    /\ cartoonImage = Null
    /\ isProcessing = FALSE
    /\ selectedStyle = "vibrant"
    /\ pc = "idle"
    /\ toast = ToastNone
    /\ reads = {}
    /\ invokes = {}
    /\ nextReq = 0
    /\ responses = {}
    /\ unhandledRejection = FALSE
    /\ adjustments = DefaultAdjustments
    /\ originalImage = 0
    /\ canvas = [src |-> 0, adj |-> DefaultAdjustments]
    /\ pendingLoads = {}
    /\ pendingBlobs = {}
    /\ preview = Null
    /\ previewReads = {}
    /\ nextFile = 0
    /\ isWebcamActive = FALSE
    /\ streamRef = NoStream
    /\ liveStreams = {}
    /\ videoSrc = NoStream
    /\ storage = NothingStored
    /\ facingMode = InitialFacingMode(storage)
    /\ quality = InitialQuality(storage)
    /\ capturedImages = <<>>
    /\ selectedImageId = NoImageId
    /\ pendingCaptures = <<>>
    /\ nextStream = 0
    /\ pendingGUM = <<>>
    /\ restartTimers = <<>>
    /\ camToast = ""
    /\ now = 0
    /\ apiKeyConfigured \in BOOLEAN
    /\ mediaSupported \in BOOLEAN
    /\ mounted = TRUE
    /\ served = NoExchange

\* The page while it is mounted: selection, adjustment, submission.
Next ==
    \/ onDrop
    \/ \E n \in 1..MaxFiles : PreviewLoadEnd(n)
    \/ \E n \in 1..MaxFiles : ImgOnload(n)
    \/ \E n \in 1..MaxFiles : ImgError(n)
    \/ \E field \in {"brightness", "contrast", "saturation"}, value \in Levels :
          SetAdjustment(field, value)
    \/ resetAdjustments
    \/ \E b \in pendingBlobs : ToBlobDone(b)
    \/ \E style \in StylesTried : handleStyleChange(style)
    \/ handleCartoonify
    \/ CartoonifyBody
    \/ \E r \in reads : ReaderLoadEnd(r)
    \/ \E q \in invokes : EndpointResponds(q)
    \/ \E resp \in responses : InvokeSettled(resp)

Spec == Init /\ [][Next]_vars

\* The submission path for one selected file: selection, the editor's first
\* render, submissions and their responses.
NextSubmit ==
    \/ nextFile = 0 /\ onDrop
    \/ \E n \in 1..MaxFiles : ImgOnload(n)
    \/ \E b \in pendingBlobs : ToBlobDone(b)
    \/ \E style \in StylesTried : handleStyleChange(style)
    \/ handleCartoonify
    \/ CartoonifyBody
    \/ \E r \in reads : ReaderLoadEnd(r)
    \/ \E q \in invokes : EndpointResponds(q)
    \/ \E resp \in responses : InvokeSettled(resp)

SpecSubmit == Init /\ [][NextSubmit]_vars

\* The adjustment stage: selection, decoding, sliders, encoding.
NextEdit ==
    \/ onDrop
    \/ \E n \in 1..MaxFiles : ImgOnload(n)
    \/ \E n \in 1..MaxFiles : ImgError(n)
    \/ \E field \in {"brightness", "contrast", "saturation"}, value \in Levels :
          SetAdjustment(field, value)
    \/ resetAdjustments
    \/ \E b \in pendingBlobs : ToBlobDone(b)

SpecEdit == Init /\ [][NextEdit]_vars

\* The adjustment stage for one file, sliders moved over their whole range.
NextReset ==
    \/ nextFile = 0 /\ onDrop
    \/ \E n \in 1..MaxFiles : ImgOnload(n)
    \/ \E field \in {"brightness", "contrast", "saturation"}, value \in ExtremeLevels :
          SetAdjustment(field, value)
    \/ resetAdjustments
    \/ \E b \in pendingBlobs : ToBlobDone(b)

SpecReset == Init /\ [][NextReset]_vars

\* The capture source: file drop and camera.
NextCam ==
    \/ onDrop
    \/ \E n \in 1..MaxFiles : PreviewLoadEnd(n)
    \/ startWebcam
    \/ \E i \in 1..MaxStreams : GetUserMediaResolved(i)
    \/ \E i \in 1..MaxStreams : GetUserMediaRejected(i)

SpecCam == Init /\ [][NextCam]_vars

\* The capture source until and after the page is torn down.
NextTeardown ==
    \/ NextCam
    \/ Unmount

SpecTeardown == Init /\ [][NextTeardown]_vars

\* Whatever is pending completes: a read ends, getUserMedia settles.
FairSpecTeardown == SpecTeardown /\ WF_vars(NextTeardown)

\* The whole uploader: NextCam and the handlers of the streaming and gallery
\* branches of its render.
NextUploader ==
    \/ NextCam
    \/ \E i \in 1..MaxStreams : RestartTimerFired(i)
    \/ StopClicked
    \/ toggleCamera
    \/ \E newQuality \in {"low", "medium", "high"} : changeQuality(newQuality)
    \/ capturePhoto
    \/ \E i \in 1..MaxCaptures : CaptureBlobDone(i)
    \/ \E i \in 1..MaxCaptures : CaptureReadEnd(i)
    \/ Tick
    \/ \E i \in 1..MaxCaptures : deleteImage(capturedImages[i].id)
    \/ \E i \in 1..MaxCaptures : selectImage(i)
    \/ closeGallery
    \/ Unmount

SpecUploader == Init /\ [][NextUploader]_vars

\* The endpoint alone, serving any caller.  It keeps nothing between two
\* requests, so one exchange per run is explored.
NextEndpoint ==
    /\ served = NoExchange
    /\ \E request \in Requests, up \in EndpointAnswers : ApiRequest(request, up)

SpecEndpoint == Init /\ [][NextEndpoint]_vars

\* The handler of a click runs to completion once it has started.
FairSpecSubmit == SpecSubmit /\ WF_vars(CartoonifyBody)

\* ------------------------------------------------------------------ claims
\* The streaming branch of the uploader is never shown: the flag is set only
\* where the video element exists, and it exists only in that branch.  So no
\* handler of the streaming or gallery branch ever runs: nothing is captured
\* and no restart is scheduled.
NeverStreaming ==
    /\ ~isWebcamActive
    /\ videoSrc = NoStream
    /\ capturedImages = <<>>
    /\ pendingCaptures = <<>>
    /\ restartTimers = <<>>
    /\ storage = NothingStored

\* Submissions whose response the page has not handled yet.
Outstanding == {r.id : r \in reads} \cup {q.id : q \in invokes} \cup {a.id : a \in responses}

\* C1: at most one stylization request is outstanding at any time, and while
\* one is outstanding isProcessing is true, which disables the trigger.
C1_OneOutstandingRequest ==
    /\ Cardinality(Outstanding) <= 1
    /\ Outstanding # {} => isProcessing

\* A stylization failed: the endpoint call returned an error, or a response
\* without cartoon_image.
Failed(resp) == InvokeError(resp) \/ resp.cartoon_image = Null

\* C2: when the page has handled the response of a failed stylization, the
\* loading notification has been replaced by an error message and no error
\* has escaped handleCartoonify uncaught.
C2_FailureCaughtAndSurfaced ==
    [][\A resp \in responses :
          (resp \notin responses' /\ Failed(resp))
             => (toast'.kind = "error" /\ ~unhandledRejection')]_vars

\* C3: the artifact Index holds is never a render of the pixels of a file
\* other than the selected one, in any order of decode and encode completions.
C3_NoStaleRender ==
    adjustedFile.kind = "render" => adjustedFile.src = selectedFile.src

\* C4: in every reachable state at most one acquired media stream has
\* unstopped tracks.
C4_AtMostOneLiveStream == Cardinality(liveStreams) <= 1

\* C6: when a new raw image is delivered, the adjustment triple becomes the
\* default triple, and the first artifact emitted for a newly decoded image
\* is rendered with the default triple.
C6_NewImageResetsAdjustments ==
    [][/\ selectedFile' # selectedFile => adjustments' = DefaultAdjustments
       /\ originalImage' # originalImage =>
             \A b \in pendingBlobs' \ pendingBlobs : b.adj = DefaultAdjustments]_vars

\* C8: for endpoint failures with status 429, 402 and 500 the page shows the
\* endpoint's own error text for that status, and the three texts differ.
C8_DistinctFailureMessages ==
    [][\A resp \in responses :
          (resp \notin responses' /\ resp.status \in {429, 402, 500})
             => toast' = [kind |-> "error", msg |-> resp.error]]_vars

\* C9: the processing flag is cleared on every exit path: whenever no handler
\* is running the flag is false (so it is false when an outcome is handled),
\* and every state where it is true is followed by one where it is false.
C9_FlagCleared ==
    /\ [](pc = "idle" => ~isProcessing)
    /\ (isProcessing ~> ~isProcessing)

\* A failed submission has been handled completely.
C9_Witness ==
    /\ nextReq > 0
    /\ Outstanding = {}
    /\ unhandledRejection
    /\ ~isProcessing

\* C10: a submission starts only where an adjusted artifact exists, a file is
\* selected and no result is shown, and the endpoint is invoked only with an
\* artifact in adjustedFile; the file read for it is that artifact.
C10_RequestNeedsArtifact ==
    [][/\ (isProcessing' /\ ~isProcessing) =>
             (adjustedFile # Null /\ selectedFile # Null /\ cartoonImage = Null)
       /\ \A r \in reads' \ reads : r.file # Null /\ r.file = adjustedFile
       /\ invokes' \ invokes # {} => adjustedFile # Null]_vars

\* A request for a rendered artifact is on its way to the endpoint.
C10_Witness ==
    \E q \in invokes : q.image # Null /\ q.image.of.kind = "render"

\* Nothing the editor started is still pending.
EditorQuiescent == selectedFile # Null /\ pendingLoads = {} /\ pendingBlobs = {}

\* C11: once every pending decode and encode has completed, a rendered
\* artifact held by Index is the render of the most recently selected file
\* under the current adjustment triple, in whatever order they completed.
C11_LastWriterWins ==
    (EditorQuiescent /\ adjustedFile.kind = "render")
       => (adjustedFile.src = selectedFile.src /\ adjustedFile.adj = adjustments)

\* C13: after the page is torn down, eventually and from then on no media
\* stream has live tracks, also when getUserMedia was pending at teardown.
C13_ReleasedAfterTeardown == [](~mounted => <>[](liveStreams = {}))

\* C14: stopWebcam is idempotent.  After one call the tracks of the stream
\* held in streamRef are stopped (and no other stream's), streamRef is empty,
\* the video sink is cleared and isWebcamActive is false; a second call right
\* after changes nothing, also when no stream was ever started.
C14_StopWebcamIdempotent ==
    LET once == stopWebcamOn(StreamState)
        twice == stopWebcamOn(once) IN
    /\ once.streamRef = NoStream
    /\ streamRef \notin once.liveStreams
    /\ once.liveStreams = liveStreams \ {streamRef}
    /\ once.videoSrc = NoStream
    /\ ~once.isWebcamActive
    /\ twice = once

\* stopWebcam has run with a stream in streamRef and released it.
C14_Witness ==
    /\ ~mounted
    /\ nextStream > 0
    /\ streamRef = NoStream
    /\ liveStreams = {}

\* The error names getUserMedia rejects with that startWebcam tells apart.
FailureClasses == {"NotAllowedError", "NotFoundError", "NotReadableError"}

\* The messages of the four failure classes.
FailureMessages == {CameraErrorMessage(name) : name \in FailureClasses} \cup {UnsupportedMessage}

\* A step in which an acquisition fails: a pending getUserMedia is rejected,
\* or startWebcam finds no getUserMedia.
AcquisitionFailed ==
    \/ Len(pendingGUM') < Len(pendingGUM) /\ nextStream' = nextStream
    \/ ~mediaSupported /\ camToast' # camToast

\* Every failure is reported by startWebcam itself with the message of its
\* class, the four classes have four messages, and the failing call leaves
\* the flag, the refs and the streams as they were.
FailureReportedInPlace ==
    /\ [](Cardinality(FailureMessages) = 4)
    /\ [][AcquisitionFailed =>
            /\ camToast' \in FailureMessages \cup {CameraErrorMessage("AbortError")}
            /\ UNCHANGED streamVars]_vars

\* C15: each class of acquisition failure yields its own message, nothing is
\* raised out of startWebcam, and after the failure the component is not
\* streaming and holds no stream.
C15_FailureLeavesNoStream ==
    /\ [](Cardinality(FailureMessages) = 4)
    /\ [][AcquisitionFailed =>
            /\ camToast' \in FailureMessages \cup {CameraErrorMessage("AbortError")}
            /\ ~isWebcamActive'
            /\ streamRef' = NoStream]_vars

\* The endpoint has called the hosted model for the request in served.
ModelCalled == served # NoExchange /\ served.sent # NoCall

\* C19: for a request whose style is missing or is a string that is not a
\* key of the table, the instruction sent to the model is the text of
\* "vibrant", never an empty or non-text instruction.
C19_UnknownStyleGetsDefault ==
    (ModelCalled /\ ("style" \notin DOMAIN served.req \/ served.req.style \notin StylePromptKeys))
       => served.sent.text = [kind |-> "string", value |-> stylePrompts.vibrant]

\* C20: every style StyleSelector can emit is a key of stylePrompts with a
\* non-empty instruction, distinct styles have distinct instructions, and a
\* request with such a style is sent that style's own instruction.
C20_RegistryTotal ==
    /\ \A i \in 1..Len(styles) :
          /\ styles[i] \in DOMAIN stylePrompts
          /\ stylePrompts[styles[i]] # ""
          /\ promptText(styles[i]) = [kind |-> "string", value |-> stylePrompts[styles[i]]]
    /\ \A i, j \in 1..Len(styles) :
          i # j => stylePrompts[styles[i]] # stylePrompts[styles[j]]
    /\ Len(styles) = 12
    /\ \A i \in 1..Len(styles) : styles[i] = CartoonStyle[i]
    /\ (ModelCalled /\ \E i \in 1..Len(styles) : StyleOf(served.req) = styles[i])
          => served.sent.text = [kind |-> "string", value |-> stylePrompts[StyleOf(served.req)]]

\* The model was called with the instruction of the last style of the list.
C20_Witness ==
    /\ ModelCalled
    /\ "style" \in DOMAIN served.req
    /\ served.req.style = "minimalist"
    /\ served.sent.text.value = stylePrompts.minimalist

\* The request in served is a POST whose body carries an image.
CarriesImage == served.method = "POST" /\ served.req # Unparsable /\ served.req.image # Null

\* C21: the endpoint calls the hosted model exactly once for a request that
\* carries an image on a server with the credential, and not at all for any
\* other request (preflight, no image, no credential, unparsable body);
\* whatever the model answers, there is no second call.
C21_OneUpstreamCall ==
    served # NoExchange =>
       /\ served.resp.upstreamCalls = IF CarriesImage /\ apiKeyConfigured THEN 1 ELSE 0
       /\ served.resp.upstreamCalls <= 1
       /\ (served.resp.upstreamCalls = 1) <=> (served.sent # NoCall)

\* The model was called once and answered with a failure.
C21_Witness ==
    /\ ModelCalled
    /\ served.up.status = 404
    /\ served.resp.upstreamCalls = 1

\* C22: an upstream 429 is relayed as 429 with the rate-limit text, an
\* upstream 402 as 402 with the payment-required text, and any other
\* non-success status s as 500 with a text that ends in s; each of these
\* bodies is {error: string} without an image.
C22_UpstreamFailureRelayed ==
    (ModelCalled /\ served.up.kind = "http" /\ ~ResponseOk(served.up.status)) =>
       /\ served.up.status = 429 =>
             /\ served.resp.status = 429
             /\ served.resp.error = "Rate limit exceeded. Please try again later."
       /\ served.up.status = 402 =>
             /\ served.resp.status = 402
             /\ served.resp.error = "Payment required. Please add credits to your workspace."
       /\ served.up.status \notin {429, 402} =>
             /\ served.resp.status = 500
             /\ served.resp.error = "Gemini AI error: " \o ToString(served.up.status)
       /\ served.resp.error # ""
       /\ served.resp.cartoon_image = Null

\* An upstream 402 has been relayed.
C22_Witness ==
    /\ ModelCalled
    /\ served.up.status = 402
    /\ served.resp.status = 402

\* For a body that parses, validation is as the endpoint's contract says:
\* no image gives 400 whatever the credential, an image without the
\* credential gives 500, and nothing else ends before the call.
ParsedBodyValidated ==
    (served # NoExchange /\ served.method = "POST" /\ served.req # Unparsable) =>
       /\ served.req.image = Null => (served.resp.status = 400 /\ served.resp.error # "")
       /\ (served.req.image # Null /\ ~apiKeyConfigured) =>
             (served.resp.status = 500 /\ served.resp.error # "")
       /\ served.sent = NoCall => (served.req.image = Null \/ ~apiKeyConfigured)

\* C23: a POST without an image is answered 400 with {error}, also where the
\* credential is missing; a POST with an image on a server without the
\* credential is answered 500 with {error}; no other POST is answered before
\* the call to the model.
C23_ValidationOutcomes ==
    (served # NoExchange /\ served.method = "POST") =>
       /\ ~CarriesImage => (served.resp.status = 400 /\ served.resp.error # "")
       /\ (CarriesImage /\ ~apiKeyConfigured) =>
             (served.resp.status = 500 /\ served.resp.error # "")
       /\ served.sent = NoCall => (~CarriesImage \/ ~apiKeyConfigured)

\* C24: when the upstream call succeeds, the answer is 200 with the first
\* generated image if there is one, and 500 with {error} and no image if
\* there is none; no success body lacks the image.
C24_FirstImageReturned ==
    /\ (ModelCalled /\ served.up.kind = "http" /\ ResponseOk(served.up.status)) =>
          IF Len(served.up.images) > 0
          THEN /\ served.resp.status = 200
               /\ served.resp.error = ""
               /\ served.resp.cartoon_image # Null
               /\ served.resp.cartoon_image.url = served.up.images[1]
          ELSE /\ served.resp.status = 500
               /\ served.resp.error # ""
               /\ served.resp.cartoon_image = Null
    /\ (served # NoExchange /\ served.method = "POST" /\ served.resp.status = 200) =>
          served.resp.cartoon_image # Null

\* The model generated two images and the first was returned.
C24_Witness ==
    /\ ModelCalled
    /\ served.up.images = <<"g2", "g1">>
    /\ served.resp.status = 200
    /\ served.resp.cartoon_image.url = "g2"

\* C25: handling a failed stylization changes neither selectedFile nor
\* adjustedFile nor selectedStyle, and leaves cartoonImage as it was (null
\* stays null), so the trigger is offered again for the same image.
C25_FailureKeepsSelection ==
    [][\A resp \in responses :
          (resp \notin responses' /\ Failed(resp)) =>
             /\ UNCHANGED <<selectedFile, adjustedFile, selectedStyle, cartoonImage>>
             /\ ~isProcessing'
             /\ (selectedFile # Null /\ cartoonImage = Null) =>
                   (selectedFile' # Null /\ cartoonImage' = Null /\ adjustedFile' # Null)]_vars

\* A failed stylization of an adjusted image has been handled; the image is
\* still selected and no result is shown.
C25_Witness ==
    /\ unhandledRejection
    /\ responses = {}
    /\ selectedFile # Null
    /\ adjustedFile.kind = "render"
    /\ cartoonImage = Null

\* C26: a step that takes the triple from a non-default value to the default
\* sets all three parameters to 100 at once, and what the editor then draws
\* and exports is the decoded source under the default triple, the same as
\* was exported when the source was first decoded, whatever was drawn
\* before; resetAdjustments always is such a step.
C26_ResetIsIdentity ==
    [][(hasAdjustments /\ adjustments' = DefaultAdjustments) =>
          /\ adjustments'.brightness = 100
          /\ adjustments'.contrast = 100
          /\ adjustments'.saturation = 100
          /\ originalImage # 0 =>
                /\ canvas' = [src |-> originalImage, adj |-> DefaultAdjustments]
                /\ \E b \in pendingBlobs' :
                      b.src = originalImage /\ b.adj = DefaultAdjustments
                /\ \A b \in pendingBlobs' \ pendingBlobs :
                      b.src = originalImage /\ b.adj = DefaultAdjustments]_vars

\* After two sliders were moved and rendered, the triple is back at the
\* default and the export of the reset is pending.
C26_Witness ==
    /\ adjustedFile.kind = "render"
    /\ adjustedFile.adj.brightness # 100
    /\ adjustedFile.adj.contrast # 100
    /\ adjustments = DefaultAdjustments
    /\ \E b \in pendingBlobs : b.src = selectedFile.src /\ b.adj = DefaultAdjustments

\* C28: with no acquisition pending, isWebcamActive is true exactly if
\* streamRef holds a stream with live tracks; so a getUserMedia that
\* succeeds from the idle view leaves the component streaming.
C28_FlagAgreesWithStream ==
    (pendingGUM = <<>> /\ restartTimers = <<>>) =>
       (isWebcamActive <=> (streamRef # NoStream /\ streamRef \in liveStreams))

\* C29: a result that is shown is the endpoint's answer to a request made
\* with the selected source image and the selected style.
C29_ResultNotStale ==
    cartoonImage # Null =>
       /\ selectedFile # Null
       /\ cartoonImage.of.of.src = selectedFile.src
       /\ cartoonImage.prompt = TextPart(promptText(selectedStyle))

\* C30: after two drops, once both preview reads have completed, a preview
\* that is shown is that of the file last passed to onImageSelect, in
\* whichever order the reads completed.
C30_PreviewShowsLastDrop ==
    (nextFile >= 2 /\ previewReads = {} /\ preview # Null)
       => preview = DataURL(selectedFile)

====
